---------------------------- MODULE Spec2Model ----------------------------
(***************************************************************************)
(* Fastboot flashing backend on top of MTD                                 *)
(* (drivers/fastboot/fb_spi_flash.c).                                      *)
(*                                                                         *)
(* The three public operations                                             *)
(*   fastboot_spi_flash_get_part_info, fastboot_spi_flash_erase,           *)
(*   fastboot_spi_flash_write                                              *)
(* are modelled as a sequential state machine.  One action is taken per    *)
(* call into a collaborator (the MTD core, the sparse image driver); the   *)
(* collaborator's result is chosen nondeterministically.  `log` records    *)
(* the collaborator calls of the operation in progress, in call order.     *)
(*                                                                         *)
(* Integer widths.  TLC's integers cannot hold 2^32, so the machine words  *)
(* are scaled: a u32 has U32Bits bits and a 64 bit word has twice as many. *)
(* Every C expression is reduced modulo the width of its C type.           *)
(***************************************************************************)
EXTENDS Integers, Sequences, FiniteSets

VARIABLES
    pc,             \* position of the (single) thread of control
    op,             \* public operation in progress / last run
    part_name,      \* the name argument: "NULL", "EMPTY" or "GIVEN"
    is_sparse,      \* is_sparse_image(download_buffer)
    download_bytes, \* u32 length argument of fastboot_spi_flash_write
    mtd,            \* struct mtd_info *mtd of the operation (handle or ERR_PTR)
    rret,           \* value returned by get_mtd_device_by_name
    ret,            \* value returned by the public operation (NoRet for void)
    part_info,      \* struct disk_partition filled by get_part_info
    instr,          \* struct erase_info handed to mtd_erase
    wreq,           \* arguments and results of the last mtd_write
    sparse,         \* struct sparse_storage handed to write_sparse_image
    cb,             \* last sparse callback: function, arguments, return value
    chunks,         \* callbacks made so far by the sparse image driver
    log,            \* collaborator calls of this operation, <<call, result>>
    responses,      \* fastboot responses emitted by this operation
    live            \* references held on MTD devices (get minus put)

vars == <<pc, op, part_name, is_sparse, download_bytes, mtd, rret, ret,
          part_info, instr, wreq, sparse, cb, chunks, log, responses, live>>

---------------------------------------------------------------------------
(* Bounds of the model *)

\* scaled width of u32
U32Bits == 3
\* largest mtd->writesize
MaxWrite == 2
\* largest mtd->erasesize
MaxErase == 3
\* largest mtd->size
MaxSize == 5
\* largest chunk index given to the sparse callback
MaxBlk == 4
\* largest chunk count given to the sparse callback
MaxCnt == 2
\* callbacks per run of the sparse image driver
MaxChunks == 2

U32 == 2 ^ U32Bits          \* modulus of u32
U64 == 2 ^ (2 * U32Bits)    \* modulus of uint64_t

(* errno values used by the source and by the MTD core *)
ENOENT == 2
EIO    == 5
ENODEV == 19

\* a void function returns nothing; an int function returns <<value>>
NoRet  == <<>>
Returned(v) == <<v>>
NoMtd  == [err |-> 0, size |-> 0, erasesize |-> 0, writesize |-> 0]
NoInfo == [start |-> 0, size |-> 0, blksz |-> 0]
NoReq  == [via |-> "none", addr |-> 0, len |-> 0, ret |-> 0, retlen |-> 0]
NoCb   == [fn |-> "none", blk |-> 0, blkcnt |-> 0, ret |-> 0]
NoSparse == [blksz |-> 0, start |-> 0, size |-> 0]

(* Resolved handles: 0 < writesize <= erasesize <= size *)
SmallHandles ==
    { [err |-> 0, size |-> s, erasesize |-> e, writesize |-> w] :
        <<w, e, s>> \in { t \in (1..MaxWrite) \X (1..MaxErase) \X (1..MaxSize) :
                            t[1] <= t[2] /\ t[2] <= t[3] } }

(* a partition larger than a u32 can address (mtd->size is a uint64_t) *)
BigHandle ==
    [err |-> 0, size |-> 2 * U32, erasesize |-> MaxErase, writesize |-> MaxWrite]

Handles == SmallHandles \cup {BigHandle}

(* ERR_PTR values get_mtd_device_nm can return *)
LookupErrors == { -ENODEV, -EIO }
ErrPtr(e) == [err |-> e, size |-> 0, erasesize |-> 0, writesize |-> 0]
IS_ERR(m) == m.err # 0
PTR_ERR(m) == m.err

(* results of mtd_erase / mtd_write *)
IoResults == { 0, -EIO }

---------------------------------------------------------------------------
(* fastboot response helpers *)

fastboot_fail(msg) == Append(responses, <<"FAIL", msg>>)
fastboot_okay == Append(responses, <<"OKAY", "">>)

Called(l, call, r) == Append(l, <<call, r>>)

(* number of calls of one kind in a log *)
RECURSIVE Count(_, _)
Count(l, call) ==
    IF l = <<>> THEN 0
    ELSE (IF Head(l)[1] = call THEN 1 ELSE 0) + Count(Tail(l), call)

---------------------------------------------------------------------------
(* Entry points *)

Idle == pc = "idle"

(* lengths tried for a raw image, and for a sparse image (whose length   *)
(* the sparse path never reads)                                           *)
RawLens    == 0..(U32 - 1)
SparseLens == {U32 - 1}

(* a public operation is entered: its locals are fresh, the log is empty *)
Enter(o, n, s, L) ==
    /\ op' = o
    /\ part_name' = n
    /\ is_sparse' = s
    /\ download_bytes' = L
    /\ mtd' = NoMtd
    /\ rret' = 0
    /\ part_info' = NoInfo
    /\ instr' = NoReq
    /\ wreq' = NoReq
    /\ sparse' = NoSparse
    /\ cb' = NoCb
    /\ chunks' = 0
    /\ log' = <<>>
    /\ UNCHANGED live

(* faulty variant: only the null pointer is rejected, "" goes on to the lookup *)
NameMissing_null_only(n) == n = "NULL"

(* the name check of get_part_info: !part_name || !*part_name *)
NameMissing(n) == n = "NULL" \/ n = "EMPTY"

fastboot_spi_flash_get_part_info ==
    /\ Idle
    /\ \E n \in {"NULL", "EMPTY", "GIVEN"} :
        /\ Enter("info", n, FALSE, 0)
        /\ IF NameMissing(n)
           THEN /\ responses' = <<<<"FAIL", "partition not given">>>>
                /\ ret' = Returned(-ENOENT)
                /\ pc' = "done"
           ELSE /\ responses' = <<>>
                /\ ret' = NoRet
                /\ pc' = "resolve1"

fastboot_spi_flash_erase ==
    /\ Idle
    /\ Enter("erase", "GIVEN", FALSE, 0)
    /\ responses' = <<>>
    /\ ret' = NoRet
    /\ pc' = "resolve1"

fastboot_spi_flash_write ==
    /\ Idle
    /\ \E s \in BOOLEAN :
        \E L \in IF s THEN SparseLens ELSE RawLens :
            Enter("write", "GIVEN", s, L)
    /\ responses' = <<>>
    /\ ret' = NoRet
    /\ pc' = "resolve1"

---------------------------------------------------------------------------
(* get_mtd_device_by_name *)

(* faulty variants of the retry condition: never retry; retry on every error *)
ShouldRetry_never(e) == FALSE
ShouldRetry_always(e) == TRUE

(* the retry condition, ret == -ENODEV *)
ShouldRetry(e) == e = -ENODEV

(* mtd_probe_devices(); *mtd = get_mtd_device_nm(name); *)
ProbeAndLookup(m) ==
    /\ mtd' = m
    /\ log' = Called(Called(log, "probe", 0), "lookup", PTR_ERR(m))
    /\ live' = IF IS_ERR(m) THEN live ELSE live + 1

ResolverFrame ==
    UNCHANGED <<op, part_name, is_sparse, download_bytes, ret, part_info,
                instr, wreq, sparse, cb, chunks, responses>>

probe_lookup_first ==
    /\ pc = "resolve1"
    /\ \E m \in Handles \cup { ErrPtr(e) : e \in LookupErrors } :
        /\ ProbeAndLookup(m)
        /\ IF IS_ERR(m)
           THEN IF ShouldRetry(PTR_ERR(m))
                THEN /\ pc' = "resolve2"
                     /\ rret' = PTR_ERR(m)
                ELSE /\ pc' = "resolved"
                     /\ rret' = PTR_ERR(m)
           ELSE /\ pc' = "resolved"
                /\ rret' = 0
    /\ ResolverFrame

(* faulty variant: the lookup is retried for as long as it fails with -ENODEV *)
probe_lookup_retry_again ==
    /\ pc = "resolve2"
    /\ \E m \in Handles \cup { ErrPtr(e) : e \in LookupErrors } :
        /\ mtd' = m
        /\ live' = IF IS_ERR(m) THEN live ELSE live + 1
        /\ rret' = IF IS_ERR(m) THEN PTR_ERR(m) ELSE 0
        /\ IF IS_ERR(m) /\ ShouldRetry(PTR_ERR(m))
           THEN /\ pc' = "resolve2"
                /\ log' = IF Len(log) < 4
                          THEN Called(Called(log, "probe", 0), "lookup", PTR_ERR(m))
                          ELSE log
           ELSE /\ pc' = "resolved"
                /\ log' = Called(Called(log, "probe", 0), "lookup", PTR_ERR(m))
    /\ ResolverFrame

probe_lookup_retry ==
    /\ pc = "resolve2"
    /\ \E m \in Handles \cup { ErrPtr(e) : e \in LookupErrors } :
        /\ ProbeAndLookup(m)
        /\ rret' = IF IS_ERR(m) THEN PTR_ERR(m) ELSE 0
    /\ pc' = "resolved"
    /\ ResolverFrame

get_mtd_device_by_name == probe_lookup_first \/ probe_lookup_retry

put_mtd_device(l) ==
    /\ log' = Called(l, "put", 0)
    /\ live' = live - 1

---------------------------------------------------------------------------
(* fastboot_spi_flash_get_part_info, after the resolver *)

get_part_info_not_found ==
    /\ pc = "resolved" /\ op = "info" /\ rret # 0
    /\ responses' = fastboot_fail("partition not found")
    /\ ret' = Returned(rret)
    /\ pc' = "done"
    /\ UNCHANGED <<op, part_name, is_sparse, download_bytes, mtd, rret,
                   part_info, instr, wreq, sparse, cb, chunks, log, live>>

(* faulty variant: the erase block size is reported as the block size *)
InfoBlksz_erasesize(m) == m.erasesize

(* part_info->blksz = mtd->writesize: the page size *)
InfoBlksz(m) == m.writesize

get_part_info_fill ==
    /\ pc = "resolved" /\ op = "info" /\ rret = 0
    /\ part_info' = [start |-> 0, size |-> mtd.size % U64,
                     blksz |-> InfoBlksz(mtd)]
    /\ put_mtd_device(log)
    /\ ret' = Returned(0)
    /\ pc' = "done"
    /\ UNCHANGED <<op, part_name, is_sparse, download_bytes, mtd, rret,
                   instr, wreq, sparse, cb, chunks, responses>>

---------------------------------------------------------------------------
(* fastboot_spi_flash_erase, after the resolver *)

erase_not_found ==
    /\ pc = "resolved" /\ op = "erase" /\ rret # 0
    /\ responses' = fastboot_fail("partition not found")
    /\ pc' = "done"
    /\ UNCHANGED <<op, part_name, is_sparse, download_bytes, mtd, rret, ret,
                   part_info, instr, wreq, sparse, cb, chunks, log, live>>

(* faulty variant: one erase block instead of the whole partition *)
EraseAllLen_one_block(m) == m.erasesize

(* instr.len = mtd->size: the whole partition *)
EraseAllLen(m) == m.size

(* faulty variant: the handle is put before the erase is issued *)
erase_call_put_first ==
    /\ pc = "resolved" /\ op = "erase" /\ rret = 0
    /\ \E r \in IoResults :
        /\ instr' = [via |-> "erase", addr |-> 0,
                     len |-> mtd.size, ret |-> r, retlen |-> 0]
        /\ log' = Called(Called(log, "put", 0), "erase", r)
        /\ responses' = IF r # 0
                        THEN fastboot_fail("failed erasing mtd device")
                        ELSE fastboot_okay
    /\ live' = live - 1
    /\ pc' = "done"
    /\ UNCHANGED <<op, part_name, is_sparse, download_bytes, mtd, rret, ret,
                   part_info, wreq, sparse, cb, chunks>>

(* instr.addr = 0; instr.len = mtd->size; ret = mtd_erase(mtd, &instr) *)
erase_call ==
    /\ pc = "resolved" /\ op = "erase" /\ rret = 0
    /\ \E r \in IoResults :
        /\ instr' = [via |-> "erase", addr |-> 0,
                     len |-> EraseAllLen(mtd), ret |-> r, retlen |-> 0]
        /\ log' = Called(log, "erase", r)
    /\ pc' = "erase_put"
    /\ UNCHANGED <<op, part_name, is_sparse, download_bytes, mtd, rret, ret,
                   part_info, wreq, sparse, cb, chunks, responses, live>>

(* put_mtd_device(mtd); then the response by ret *)
erase_finish ==
    /\ pc = "erase_put"
    /\ put_mtd_device(log)
    /\ responses' = IF instr.ret # 0
                    THEN fastboot_fail("failed erasing mtd device")
                    ELSE fastboot_okay
    /\ pc' = "done"
    /\ UNCHANGED <<op, part_name, is_sparse, download_bytes, mtd, rret, ret,
                   part_info, instr, wreq, sparse, cb, chunks>>

---------------------------------------------------------------------------
(* fastboot_spi_flash_write, after the resolver *)

(* faulty variant: the failure path goes through the common put_mtd_device *)
write_not_found_puts ==
    /\ pc = "resolved" /\ op = "write" /\ rret # 0
    /\ responses' = fastboot_fail("partition not found")
    /\ pc' = "put_final"
    /\ UNCHANGED <<op, part_name, is_sparse, download_bytes, mtd, rret, ret,
                   part_info, instr, wreq, sparse, cb, chunks, log, live>>

write_not_found ==
    /\ pc = "resolved" /\ op = "write" /\ rret # 0
    /\ responses' = fastboot_fail("partition not found")
    /\ pc' = "done"
    /\ UNCHANGED <<op, part_name, is_sparse, download_bytes, mtd, rret, ret,
                   part_info, instr, wreq, sparse, cb, chunks, log, live>>

(* faulty variant: an aligned length is bumped to the next block as well *)
AlignUp_always(len, E) == (((len \div E) + 1) * E) % U64

(* faulty variant: the clamp to mtd->size is missing *)
RawEraseLen_noclamp(L, E, S) ==
    IF (L % U64) % E # 0 THEN ((((L % U64) \div E) + 1) * E) % U64 ELSE L % U64

(* the length erased ahead of a raw write.  instr.len is a uint64_t:       *)
(*   instr.len = download_bytes;                                           *)
(*   if (instr.len % E) instr.len = ((instr.len / E) + 1) * E;             *)
(*   if (instr.len > S) instr.len = S;                                     *)
AlignUp(len, E) ==
    IF len % E # 0 THEN (((len \div E) + 1) * E) % U64 ELSE len

RawEraseLen(L, E, S) ==
    LET aligned == AlignUp(L % U64, E)
    IN  IF aligned > S THEN S ELSE aligned

(* faulty variant: the early return forgets put_mtd_device *)
raw_erase_failed_leak(l) ==
    /\ responses' = fastboot_fail("erase failed")
    /\ log' = l
    /\ live' = live
    /\ pc' = "done"

(* faulty variant: the early return is missing, the write is attempted anyway *)
raw_erase_failed_continue(l) ==
    /\ responses' = fastboot_fail("erase failed")
    /\ log' = l
    /\ live' = live
    /\ pc' = "raw_write"

(* faulty variant: the sparse signature is never recognised *)
TakesSparsePath_never(s) == FALSE

(* the dispatch of fastboot_spi_flash_write: is_sparse_image(download_buffer) *)
TakesSparsePath(s) == s

(* erase failed: fastboot_fail, put_mtd_device, return *)
raw_erase_failed(l) ==
    /\ responses' = fastboot_fail("erase failed")
    /\ put_mtd_device(l)
    /\ pc' = "done"

(* erase succeeded: fall through to the write *)
raw_erase_passed(l) ==
    /\ log' = l
    /\ pc' = "raw_write"
    /\ UNCHANGED <<responses, live>>

write_raw_erase ==
    /\ pc = "resolved" /\ op = "write" /\ rret = 0
    /\ ~TakesSparsePath(is_sparse)
    /\ \E r \in IoResults :
        /\ instr' = [via |-> "raw", addr |-> 0,
                     len |-> RawEraseLen(download_bytes, mtd.erasesize, mtd.size),
                     ret |-> r, retlen |-> 0]
        /\ IF r # 0
           THEN raw_erase_failed(Called(log, "erase", r))
           ELSE raw_erase_passed(Called(log, "erase", r))
    /\ UNCHANGED <<op, part_name, is_sparse, download_bytes, mtd, rret, ret,
                   part_info, wreq, sparse, cb, chunks>>

(* faulty variant: the result of mtd_write is ignored *)
RawWriteResponse_always_okay(r) == fastboot_okay

(* the response of the raw path, decided by mtd_write's return value *)
RawWriteResponse(r) ==
    IF r # 0 THEN fastboot_fail("write failed") ELSE fastboot_okay

(* faulty variant: the write length is clamped to mtd->size like the erase length *)
RawWriteLen_clamped(L, S) == IF L > S THEN S ELSE L

(* the length handed to mtd_write: download_bytes, whatever mtd->size is *)
RawWriteLen(L, S) == L

(* faulty variant: a short write (retlen < len) is reported as a failure too *)
RawWriteOutcome_checks_retlen(r, n, len) ==
    IF r # 0 \/ n < len THEN fastboot_fail("write failed") ELSE fastboot_okay

(* the response after mtd_write returned r and stored n in retlen: retlen *)
(* is only printed                                                        *)
RawWriteOutcome(r, n, len) == RawWriteResponse(r)

(* ret = mtd_write(mtd, 0, download_bytes, &retlen, download_buffer) *)
write_raw_write ==
    /\ pc = "raw_write"
    /\ \E r \in IoResults, n \in {0, download_bytes} :
        /\ wreq' = [via |-> "raw", addr |-> 0,
                    len |-> RawWriteLen(download_bytes, mtd.size),
                    ret |-> r, retlen |-> n]
        /\ log' = Called(log, "write", r)
        /\ responses' = RawWriteOutcome(r, n, download_bytes)
    /\ pc' = "put_final"
    /\ UNCHANGED <<op, part_name, is_sparse, download_bytes, mtd, rret, ret,
                   part_info, instr, sparse, cb, chunks, live>>

(* faulty variant: the final put_mtd_device is missing *)
write_put_missing ==
    /\ pc = "put_final"
    /\ pc' = "done"
    /\ UNCHANGED <<op, part_name, is_sparse, download_bytes, mtd, rret, ret,
                   part_info, instr, wreq, sparse, cb, chunks, responses,
                   log, live>>

(* the put_mtd_device(mtd) that ends fastboot_spi_flash_write *)
write_put ==
    /\ pc = "put_final"
    /\ put_mtd_device(log)
    /\ pc' = "done"
    /\ UNCHANGED <<op, part_name, is_sparse, download_bytes, mtd, rret, ret,
                   part_info, instr, wreq, sparse, cb, chunks, responses>>

---------------------------------------------------------------------------
(* the sparse path *)

(* sparse_storage set up for write_sparse_image, which is then called *)
write_sparse_setup ==
    /\ pc = "resolved" /\ op = "write" /\ rret = 0
    /\ TakesSparsePath(is_sparse)
    /\ sparse' = [blksz |-> mtd.writesize, start |-> 0,
                  size |-> mtd.size \div mtd.writesize]
    /\ log' = Called(log, "write_sparse_image", 0)
    /\ pc' = "sparse"
    /\ UNCHANGED <<op, part_name, is_sparse, download_bytes, mtd, rret, ret,
                   part_info, instr, wreq, cb, chunks, responses, live>>

(* moduli size_t can have, by target *)
SizeTMods == {U32, U64}

(* faulty variant: the callback reports every chunk committed whatever mtd_write says *)
SparseWriteReturn_ignores_error(blkcnt, r) == blkcnt

(* value returned by fb_mtd_sparse_write, given mtd_write's result *)
SparseWriteReturn(blkcnt, r) == IF r # 0 THEN 0 ELSE blkcnt

(* fb_mtd_sparse_write: the mtd_write request it issues and what it returns *)
fb_mtd_sparse_write(info, blk, blkcnt, r, szmod) ==
    [len    |-> (blkcnt * info.blksz) % szmod,
     offset |-> (blk * info.blksz) % U32,
     ret    |-> SparseWriteReturn(blkcnt, r)]

(* fb_mtd_sparse_reserve *)
fb_mtd_sparse_reserve(info, blk, blkcnt) == blkcnt

(* the chunks the driver passes to a callback lie inside the region of    *)
(* sparse.size blocks it was given                                        *)
InRegion(info, blk, blkcnt) == blk + blkcnt <= info.start + info.size

(* write_sparse_image calls sparse.write; a callback reporting zero chunks *)
(* committed aborts the transfer with a failure response                   *)
sparse_driver_write ==
    /\ pc = "sparse" /\ chunks < MaxChunks
    /\ \E blk \in 0..MaxBlk, blkcnt \in 0..MaxCnt, r \in IoResults,
          szmod \in SizeTMods, abort \in BOOLEAN :
        LET c == fb_mtd_sparse_write(sparse, blk, blkcnt, r, szmod)
        IN  /\ InRegion(sparse, blk, blkcnt)
            /\ wreq' = [via |-> "sparse", addr |-> c.offset, len |-> c.len,
                        ret |-> r, retlen |-> IF r = 0 THEN c.len ELSE 0]
            /\ cb' = [fn |-> "write", blk |-> blk, blkcnt |-> blkcnt,
                      ret |-> c.ret]
            /\ log' = Called(log, "write", r)
            /\ abort = IF blkcnt > 0 THEN c.ret = 0 ELSE abort
            /\ abort => c.ret = 0
            /\ IF abort
               THEN /\ responses' = fastboot_fail("flash write failure")
                    /\ pc' = "put_final"
               ELSE /\ UNCHANGED responses
                    /\ pc' = "sparse"
    /\ chunks' = chunks + 1
    /\ UNCHANGED <<op, part_name, is_sparse, download_bytes, mtd, rret, ret,
                   part_info, instr, sparse, live>>

(* write_sparse_image calls sparse.reserve *)
sparse_driver_reserve ==
    /\ pc = "sparse" /\ chunks < MaxChunks
    /\ \E blk \in {0, MaxBlk}, blkcnt \in {0, MaxCnt} :
        /\ InRegion(sparse, blk, blkcnt)
        /\ cb' = [fn |-> "reserve", blk |-> blk, blkcnt |-> blkcnt,
                  ret |-> fb_mtd_sparse_reserve(sparse, blk, blkcnt)]
    /\ chunks' = chunks + 1
    /\ UNCHANGED <<pc, op, part_name, is_sparse, download_bytes, mtd, rret,
                   ret, part_info, instr, wreq, sparse, log, responses, live>>

(* write_sparse_image returns: it has reported its own failure, or ended  *)
(* without one                                                             *)
sparse_driver_return ==
    /\ pc = "sparse"
    /\ \E r \in {<<>>, <<<<"OKAY", "">>>>, <<<<"FAIL", "sparse image error">>>>} :
        responses' = responses \o r
    /\ pc' = "put_final"
    /\ UNCHANGED <<op, part_name, is_sparse, download_bytes, mtd, rret, ret,
                   part_info, instr, wreq, sparse, cb, chunks, log, live>>

write_sparse_image ==
    sparse_driver_write \/ sparse_driver_reserve \/ sparse_driver_return

---------------------------------------------------------------------------
(* the operation has returned; the caller consumes response and result and *)
(* is free to issue the next command                                       *)
return_to_caller ==
    /\ pc = "done"
    /\ pc' = "idle"
    /\ op' = "none"
    /\ part_name' = "GIVEN"
    /\ is_sparse' = FALSE
    /\ download_bytes' = 0
    /\ mtd' = NoMtd
    /\ rret' = 0
    /\ ret' = NoRet
    /\ part_info' = NoInfo
    /\ instr' = NoReq
    /\ wreq' = NoReq
    /\ sparse' = NoSparse
    /\ cb' = NoCb
    /\ chunks' = 0
    /\ log' = <<>>
    /\ responses' = <<>>
    /\ UNCHANGED live

Init ==
    /\ pc = "idle"
    /\ op = "none"
    /\ part_name = "GIVEN"
    /\ is_sparse = FALSE
    /\ download_bytes = 0
    /\ mtd = NoMtd
    /\ rret = 0
    /\ ret = NoRet
    /\ part_info = NoInfo
    /\ instr = NoReq
    /\ wreq = NoReq
    /\ sparse = NoSparse
    /\ cb = NoCb
    /\ chunks = 0
    /\ log = <<>>
    /\ responses = <<>>
    /\ live = 0

Next ==
    \/ fastboot_spi_flash_get_part_info
    \/ fastboot_spi_flash_erase
    \/ fastboot_spi_flash_write
    \/ get_mtd_device_by_name
    \/ get_part_info_not_found
    \/ get_part_info_fill
    \/ erase_not_found
    \/ erase_call
    \/ erase_finish
    \/ write_not_found
    \/ write_raw_erase
    \/ write_raw_write
    \/ write_sparse_setup
    \/ write_sparse_image
    \/ write_put
    \/ return_to_caller

Spec == Init /\ [][Next]_vars

(* The step relation with write_sparse_image taken as one collaborator     *)
(* call that returns: the callbacks it makes in between are left out.      *)
NextCallsReturn ==
    \/ fastboot_spi_flash_get_part_info
    \/ fastboot_spi_flash_erase
    \/ fastboot_spi_flash_write
    \/ get_mtd_device_by_name
    \/ get_part_info_not_found
    \/ get_part_info_fill
    \/ erase_not_found
    \/ erase_call
    \/ erase_finish
    \/ write_not_found
    \/ write_raw_erase
    \/ write_raw_write
    \/ write_sparse_setup
    \/ sparse_driver_return
    \/ write_put
    \/ return_to_caller

(* The code is single threaded and every collaborator call returns, so the *)
(* thread of control always takes its next step.                           *)
LiveSpec == Init /\ [][NextCallsReturn]_vars /\ WF_vars(NextCallsReturn)

---------------------------------------------------------------------------
(* Properties *)

Done == pc = "done"

(* calls of one kind that returned success / failure *)
RECURSIVE CountRet(_, _, _)
CountRet(l, call, ok) ==
    IF l = <<>> THEN 0
    ELSE (IF Head(l)[1] = call /\ ((Head(l)[2] = 0) = ok) THEN 1 ELSE 0)
         + CountRet(Tail(l), call, ok)

Acquired == CountRet(log, "lookup", TRUE)
Released == Count(log, "put")

(* the resolver has run and returned to the public operation *)
ResolverReturned == Len(log) >= 2 /\ pc \notin {"resolve1", "resolve2"}

RawWrite == op = "write" /\ ~is_sparse

Fail(msg) == <<"FAIL", msg>>
Okay == <<"OKAY", "">>

Min(a, b) == IF a < b THEN a ELSE b
CeilDiv(a, b) == (a + b - 1) \div b

(* C1: in every operation the number of put_mtd_device calls is 1 if the   *)
(* lookup succeeded and 0 if it failed: never more puts than successful    *)
(* lookups at any point, and equal numbers once the operation returned.    *)
C1_ReleaseMatchesAcquire ==
    /\ Acquired <= 1
    /\ Released <= Acquired
    /\ Done => Released = Acquired

(* C1 witness: a raw write whose erase failed has returned with one put *)
C1_Witness ==
    /\ Done /\ RawWrite /\ instr.via = "raw" /\ instr.ret # 0
    /\ Acquired = 1 /\ Released = 1

(* C2: in a raw write every mtd_write call is preceded by exactly one      *)
(* mtd_erase call of the operation, and that erase returned success; after *)
(* a failed erase no mtd_write is issued.                                  *)
C2_NoProgramAfterFailedErase ==
    RawWrite =>
        /\ \A i \in DOMAIN log :
             log[i][1] = "write" =>
                /\ Cardinality({ j \in 1..(i - 1) : log[j][1] = "erase" }) = 1
                /\ \A j \in 1..(i - 1) : log[j][1] = "erase" => log[j][2] = 0
        /\ CountRet(log, "erase", FALSE) > 0 => Count(log, "write") = 0

(* C2 witness: a raw write has issued its program call *)
C2_Witness == RawWrite /\ Count(log, "write") = 1 /\ Count(log, "erase") = 1

(* C3: the erase request of a raw write has offset 0 and length            *)
(* min(S, ceil(L / E) * E).                                                *)
C3_RawEraseLength ==
    (RawWrite /\ instr.via = "raw") =>
        /\ instr.addr = 0
        /\ instr.len = Min(mtd.size,
                           CeilDiv(download_bytes, mtd.erasesize) * mtd.erasesize)
        /\ instr.len <= mtd.size

(* C3 witness: a length that is no multiple of E, rounded up beyond S and  *)
(* clamped to S                                                            *)
C3_Witness ==
    /\ RawWrite /\ instr.via = "raw"
    /\ download_bytes % mtd.erasesize # 0
    /\ CeilDiv(download_bytes, mtd.erasesize) * mtd.erasesize > mtd.size
    /\ download_bytes < mtd.size
    /\ instr.len = mtd.size

(* C4: after a first lookup failing with -ENODEV the resolver has made     *)
(* exactly 2 enumerations and 2 lookups, a second failure is returned as   *)
(* it is, and no execution makes more than 2 lookups.                      *)
C4_RetryOnceOnENODEV ==
    /\ Count(log, "lookup") <= 2
    /\ Count(log, "probe") <= 2
    /\ (ResolverReturned /\ log[2] = <<"lookup", -ENODEV>>) =>
          /\ Count(log, "lookup") = 2
          /\ Count(log, "probe") = 2
          /\ log[1][1] = "probe" /\ log[3][1] = "probe" /\ log[4][1] = "lookup"
          /\ rret = log[4][2]

(* C4 witness: both lookups failed with -ENODEV and the resolver returned *)
C4_Witness ==
    /\ ResolverReturned
    /\ log[2] = <<"lookup", -ENODEV>>
    /\ Len(log) >= 4 /\ log[4] = <<"lookup", -ENODEV>>
    /\ rret = -ENODEV

(* C5: after a first lookup that succeeded, or failed with an error other  *)
(* than -ENODEV, exactly 1 enumeration and 1 lookup were made and the      *)
(* resolver returned that result.                                          *)
C5_NoRetryOtherwise ==
    (ResolverReturned /\ log[2][1] = "lookup" /\ log[2][2] # -ENODEV) =>
        /\ Count(log, "lookup") = 1
        /\ Count(log, "probe") = 1
        /\ rret = log[2][2]

(* C5 witness: the first lookup failed with -EIO and the resolver returned *)
C5_Witness == ResolverReturned /\ log[2] = <<"lookup", -EIO>> /\ rret = -EIO

(* C6: get_part_info with a null or empty name answers "partition not      *)
(* given" and makes no enumeration, no lookup and no release.              *)
C6_NameNotGiven ==
    (op = "info" /\ part_name \in {"NULL", "EMPTY"}) =>
        /\ Done
        /\ responses = << Fail("partition not given") >>
        /\ log = <<>>

(* C6 witness: get_part_info returned for the empty name *)
C6_Witness == op = "info" /\ part_name = "EMPTY" /\ Done

(* C7 as stated: the callback returns 0 if and only if mtd_write failed,   *)
(* for every chunk count, and the chunk count when it succeeded.           *)
C7_Original ==
    cb.fn = "write" =>
        /\ (cb.ret = 0) <=> (wreq.ret # 0)
        /\ wreq.ret = 0 => cb.ret = cb.blkcnt

(* C7 amended: the callback returns 0 when mtd_write failed and the chunk  *)
(* count when it succeeded; for a chunk count above 0 it returns 0 if and  *)
(* only if mtd_write failed.                                               *)
C7_SparseWriteReturn ==
    cb.fn = "write" =>
        /\ wreq.ret # 0 => cb.ret = 0
        /\ wreq.ret = 0 => cb.ret = cb.blkcnt
        /\ cb.blkcnt > 0 => ((cb.ret = 0) <=> (wreq.ret # 0))

(* C7 witness: a callback for a positive chunk count whose mtd_write failed *)
C7_Witness ==
    cb.fn = "write" /\ cb.blkcnt > 0 /\ wreq.ret # 0 /\ cb.ret = 0

(* a raw write of length 0 on a partition the resolver found *)
RawWriteOfZero == RawWrite /\ download_bytes = 0 /\ Acquired = 1

(* C8 as stated: a raw write of length 0 on a resolvable partition always  *)
(* reports success, with an erase of {0, 0} and a program call of length 0 *)
C8_Original ==
    (RawWriteOfZero /\ Done) =>
        /\ responses = << Okay >>
        /\ instr.via = "raw" /\ instr.addr = 0 /\ instr.len = 0
        /\ wreq.via = "raw" /\ wreq.addr = 0 /\ wreq.len = 0

(* C8 amended: a raw write of length 0 on a resolvable partition issues an *)
(* erase of {0, 0} and, when that erase succeeds, a program call of length *)
(* 0 at offset 0; it reports success exactly when both calls succeed, and  *)
(* "erase failed" / "write failed" otherwise; no program call has a        *)
(* nonzero length.                                                         *)
C8_ZeroLengthRawWrite ==
    RawWriteOfZero =>
        /\ wreq.len = 0
        /\ Done =>
            /\ instr.via = "raw" /\ instr.addr = 0 /\ instr.len = 0
            /\ instr.ret = 0 =>
                  /\ wreq.via = "raw" /\ wreq.addr = 0
                  /\ Count(log, "write") = 1
            /\ instr.ret # 0 =>
                  /\ Count(log, "write") = 0
                  /\ responses = << Fail("erase failed") >>
            /\ (instr.ret = 0 /\ wreq.ret # 0) =>
                  responses = << Fail("write failed") >>
            /\ (instr.ret = 0 /\ wreq.ret = 0) => responses = << Okay >>

(* C8 witness: a raw write of length 0 returned success *)
C8_Witness ==
    /\ RawWriteOfZero /\ Done /\ responses = << Okay >>
    /\ instr.len = 0 /\ wreq.via = "raw" /\ wreq.len = 0

(* a collaborator call of the operation failed for good *)
ResolveFailed == ResolverReturned /\ rret # 0
EraseFailed   == instr.via # "none" /\ instr.ret # 0
RawProgramFailed    == wreq.via = "raw" /\ wreq.ret # 0
SparseProgramFailed == wreq.via = "sparse" /\ wreq.ret # 0

OnlyFailure == Len(responses) >= 1 /\ \A i \in DOMAIN responses : responses[i][1] = "FAIL"

(* C9 as stated: every failure comes back to the caller as a failure       *)
(* response together with an error code.                                   *)
C9_Original ==
    (Done /\ (ResolveFailed \/ EraseFailed \/ RawProgramFailed \/ SparseProgramFailed)) =>
        /\ OnlyFailure
        /\ ret # NoRet /\ ret[1] # 0

(* C9 amended: a failed resolution, a failed erase and a failed raw        *)
(* program call each end the operation with exactly one FAIL response and  *)
(* no OKAY; get_part_info also returns the resolver's nonzero error code,  *)
(* erase and write are void and return no code; a failed program call of a *)
(* sparse chunk is reported to the sparse image driver as 0 chunks.        *)
C9_FailuresSurfaced ==
    /\ (Done /\ (ResolveFailed \/ EraseFailed \/ RawProgramFailed)) =>
          /\ OnlyFailure /\ Len(responses) = 1
          /\ op = "info" => (ret = Returned(rret) /\ rret # 0)
          /\ op # "info" => ret = NoRet
    /\ (cb.fn = "write" /\ SparseProgramFailed) => cb.ret = 0

(* C9 witness: a raw write whose program call failed has returned *)
C9_Witness ==
    /\ Done /\ RawProgramFailed
    /\ responses = << Fail("write failed") >> /\ ret = NoRet

(* C10: erase on a resolvable partition issues exactly one erase request   *)
(* {0, mtd->size} and no program call, answers "failed erasing mtd device" *)
(* if it failed and OKAY otherwise; an unresolvable name is answered       *)
(* "partition not found" with no erase issued.                             *)
C10_EraseAll ==
    op = "erase" =>
        /\ Count(log, "write") = 0
        /\ Count(log, "erase") <= 1
        /\ (Done /\ rret # 0) =>
              /\ Count(log, "erase") = 0
              /\ responses = << Fail("partition not found") >>
        /\ (Done /\ rret = 0) =>
              /\ Count(log, "erase") = 1
              /\ instr.addr = 0 /\ instr.len = mtd.size
              /\ responses = << IF instr.ret # 0
                                THEN Fail("failed erasing mtd device")
                                ELSE Okay >>

(* C10 witness: erase returned after a failed mtd_erase of the whole partition *)
C10_Witness ==
    /\ op = "erase" /\ Done /\ rret = 0
    /\ instr.ret # 0 /\ instr.len = mtd.size
    /\ responses = << Fail("failed erasing mtd device") >>


(* C11: get_part_info on a resolvable partition fills start = 0,           *)
(* size = mtd->size and blksz = mtd->writesize, issues no erase and no     *)
(* program call, and has released the handle when it returns 0; when the   *)
(* resolver fails it answers "partition not found" and returns the         *)
(* resolver's error code.                                                  *)
C11_Describe ==
    (op = "info" /\ part_name = "GIVEN") =>
        /\ Count(log, "erase") = 0
        /\ Count(log, "write") = 0
        /\ (Done /\ rret = 0) =>
              /\ part_info = [start |-> 0, size |-> mtd.size,
                              blksz |-> mtd.writesize]
              /\ Released = 1 /\ live = 0
              /\ log[Len(log)] = <<"put", 0>>
              /\ ret = Returned(0)
              /\ responses = <<>>
        /\ (Done /\ rret # 0) =>
              /\ responses = << Fail("partition not found") >>
              /\ ret = Returned(rret)
              /\ part_info = NoInfo

(* C11 witness: get_part_info returned a descriptor for a partition whose  *)
(* page size differs from its erase block size                             *)
C11_Witness ==
    /\ op = "info" /\ Done /\ rret = 0
    /\ mtd.writesize # mtd.erasesize
    /\ part_info.blksz = mtd.writesize /\ part_info.size = mtd.size
    /\ Released = 1


(* C12: at most one handle is live in every state, none while the resolver *)
(* is about to retry, and none whenever no public operation is in          *)
(* progress, whatever operations ran before.                               *)
C12_AtMostOneLiveHandle ==
    /\ live \in {0, 1}
    /\ live = Acquired - Released
    /\ pc \in {"resolve1", "resolve2"} => live = 0
    /\ pc \in {"idle", "done"} => live = 0

(* C12 witness: the one handle is live while the sparse image driver runs, *)
(* after a first lookup that failed and was retried                        *)
C12_Witness ==
    /\ pc = "sparse" /\ chunks > 0 /\ live = 1
    /\ Count(log, "lookup") = 2


SparseDriverCalls == Count(log, "write_sparse_image")

(* C13: in write the image type decides the path only after a successful   *)
(* resolve and exactly one path is taken: a sparse image goes to the       *)
(* sparse image driver, with no erase and no raw program call by this      *)
(* layer; any other image is erased then written and never reaches the     *)
(* sparse image driver; an unresolvable name is answered "partition not    *)
(* found" whatever the image type.                                         *)
C13_Dispatch ==
    op = "write" =>
        /\ (SparseDriverCalls + Count(log, "erase") + Count(log, "write") > 0)
              => Acquired = 1
        /\ \A i \in DOMAIN log :
              log[i][1] \in {"write_sparse_image", "erase", "write"} =>
                  \E j \in 1..(i - 1) : log[j] = <<"lookup", 0>>
        /\ SparseDriverCalls + Count(log, "erase") <= 1
        /\ is_sparse =>
              /\ Count(log, "erase") = 0
              /\ instr = NoReq
              /\ wreq.via # "raw"
              /\ Count(log, "write") > 0 => SparseDriverCalls = 1
        /\ ~is_sparse =>
              /\ SparseDriverCalls = 0
              /\ cb = NoCb /\ sparse = NoSparse
              /\ wreq.via # "sparse"
        /\ (Done /\ rret = 0) =>
              /\ is_sparse => SparseDriverCalls = 1
              /\ ~is_sparse => Count(log, "erase") = 1
        /\ (Done /\ rret # 0) =>
              /\ responses = << Fail("partition not found") >>
              /\ SparseDriverCalls + Count(log, "erase") + Count(log, "write") = 0

(* C13 witness: a sparse image was written through the sparse callback and *)
(* the operation returned                                                  *)
C13_Witness ==
    /\ op = "write" /\ is_sparse /\ Done
    /\ SparseDriverCalls = 1 /\ wreq.via = "sparse" /\ Count(log, "erase") = 0


(* C14: for every chunk index and chunk count given to the sparse write    *)
(* callback the program call is issued at byte offset blk * blksz with     *)
(* byte length blkcnt * blksz.                                             *)
C14_SparseOffsetAndLength ==
    cb.fn = "write" =>
        /\ wreq.via = "sparse"
        /\ wreq.addr = cb.blk * sparse.blksz
        /\ wreq.len = cb.blkcnt * sparse.blksz


(* C15: the raw write programs exactly download_bytes bytes at offset 0;   *)
(* only the erase length is clamped to mtd->size, so for a length above    *)
(* mtd->size the program call is longer than the erased length and than    *)
(* the partition.                                                          *)
C15_RawWriteLength ==
    (RawWrite /\ wreq.via = "raw") =>
        /\ wreq.addr = 0
        /\ wreq.len = download_bytes
        /\ download_bytes > mtd.size =>
              /\ instr.len = mtd.size
              /\ wreq.len > instr.len
              /\ wreq.len > mtd.size

(* C15 witness: a raw program call longer than the partition was issued *)
C15_Witness ==
    /\ RawWrite /\ wreq.via = "raw"
    /\ download_bytes > mtd.size /\ wreq.len = download_bytes
    /\ instr.len = mtd.size


(* C17: every mtd_erase and mtd_write call, of erase, of the raw write and *)
(* of the sparse callback, is made on a live handle: after the successful  *)
(* lookup of the operation and before its put_mtd_device.                  *)
C17_NoUseAfterRelease ==
    \A i \in DOMAIN log :
        log[i][1] \in {"erase", "write", "write_sparse_image"} =>
            /\ \E j \in 1..(i - 1) : log[j] = <<"lookup", 0>>
            /\ \A k \in 1..(i - 1) : log[k][1] # "put"

(* C17 witness: a sparse callback programmed the device, the handle was    *)
(* released afterwards and the operation returned                          *)
C17_Witness ==
    /\ Done /\ op = "write" /\ is_sparse
    /\ Count(log, "write") >= 1
    /\ log[Len(log)] = <<"put", 0>>


(* C18: when the resolver fails, get_part_info, erase and write make no    *)
(* erase call, no program call, no call of the sparse image driver and no  *)
(* release; their only effect is the one "partition not found" response.   *)
C18_NothingTouchedWhenUnresolved ==
    (ResolverReturned /\ rret # 0) =>
        /\ \A i \in DOMAIN log : log[i][1] \in {"probe", "lookup"}
        /\ Acquired = 0 /\ live = 0
        /\ instr = NoReq /\ wreq = NoReq /\ cb = NoCb /\ sparse = NoSparse
        /\ part_info = NoInfo
        /\ pc \in {"resolved", "done"}
        /\ pc = "resolved" => responses = <<>>
        /\ Done => responses = << Fail("partition not found") >>

(* C18 witness: a sparse write to an unresolvable name has returned *)
C18_Witness ==
    /\ Done /\ op = "write" /\ is_sparse /\ rret # 0
    /\ responses = << Fail("partition not found") >> /\ Released = 0


(* C19: the raw write emits exactly one response per operation, and after  *)
(* a successful erase that response is decided by mtd_write's return value *)
(* alone: a program call that returns 0 is answered OKAY also when the     *)
(* reported retlen is below the length.                                    *)
C19_RawWriteResponse ==
    RawWrite =>
        /\ Len(responses) <= 1
        /\ Done => Len(responses) = 1
        /\ wreq.via = "raw" =>
              responses = << IF wreq.ret # 0 THEN Fail("write failed") ELSE Okay >>
        /\ (wreq.via = "none" /\ Len(responses) = 1) =>
              responses[1] \in { Fail("partition not found"), Fail("erase failed") }

(* C19 witness: a short write that returned no error was answered OKAY *)
C19_Witness ==
    /\ RawWrite /\ Done /\ wreq.via = "raw"
    /\ wreq.ret = 0 /\ wreq.retlen < wreq.len
    /\ responses = << Okay >>


(* C16: every public operation, once started, eventually returns, and the  *)
(* resolver makes at most 2 enumerations and 2 lookups on the way.         *)
C16_Terminates ==
    /\ [](Count(log, "probe") + Count(log, "lookup") <= 4)
    /\ \A o \in {"info", "erase", "write"} :
          (op = o /\ pc # "done") ~> (op = o /\ pc = "done")

(* C16 witness: a raw write that needed the resolver's retry has erased,   *)
(* written and returned                                                    *)
C16_Witness ==
    /\ Done /\ RawWrite /\ Count(log, "lookup") = 2
    /\ Count(log, "erase") = 1 /\ Count(log, "write") = 1 /\ Released = 1

===========================================================================
